---- MODULE Spec2Model ----
(***************************************************************************)
(* Model of the Google Meet dual-display macro (wired autodetect variant), *)
(* src/google-share-second.js lines 180-416: a debounced, single-flight    *)
(* reconciliation loop that pins the shared wired source to Output 2.      *)
(*                                                                         *)
(* The macro runs on one cooperative event loop.  Every `await` of an xapi *)
(* query or command is a suspension point; the code between two            *)
(* suspension points is one atomic action of the model.  The device is the *)
(* environment: it holds the call list, the presentation instance, the     *)
(* connector list and the mapping of Output 2, answers a query from its    *)
(* state at the moment the query completes, applies a Matrix command at    *)
(* the moment it completes successfully, and may fail any query or         *)
(* command.  An event is delivered in the step that changes the device.    *)
(* The log de-duplication signature (lastEvalSig) only gates a log line    *)
(* and is not modelled.  The static variant (lines 1-179) is the same      *)
(* loop with ALLOWED_SOURCE_IDS fixed at [2, 3] and no discovery pass.      *)
(***************************************************************************)
EXTENDS Integers, Sequences, FiniteSets, TLC

\* ---------------------------------------------------------------- bounds
MaxHandlers == 2   \* event handlers awaiting refreshGoogleState at once
NRun        == 2   \* slots for reevaluate invocations inside their body
MaxTimers   == 2   \* timeout handles the platform may hold pending

\* ------------------------------------------------------------- constants
Null == -1         \* JavaScript null (source ids are parsed integers >= 0)

\* ------------------------------------------------------- the environment
\* Call records the device may list; the candidate field is a token list:
\* an optional scheme token followed by the rest of the URI.
Calls == {"meet", "sip"}

CallCandidate(c) ==
  IF c = "meet" THEN <<"https://", "Meet.Google.com/", "abc-defg-hij">>
                ELSE <<"sip:", "room@example.com">>

\* Connector lists a device may report (each connector: parsed id, Type).
ConnectorChoices ==
  { { [id |-> 1, type |-> "Camera"], [id |-> 2, type |-> "usbc-dp"],
      [id |-> 3, type |-> " HDMI "], [id |-> 4, type |-> "HDMI"] },
    { [id |-> 1, type |-> "Camera"], [id |-> Null, type |-> "HDMI"] } }

\* Source-id sets a presentation may carry.
ActiveChoices == { {2, 3}, {2, 7}, {9} }

SendingModes == {"LocalOnly", "LocalRemote"}

VARIABLES
  \* device (environment)
  devCalls,            \* calls currently on the device
  devMode,             \* "None" | "LocalOnly" | "LocalRemote"
  devSources,          \* source ids of the local presentation instance
  devConnectors,       \* the connector list
  devOutput2,          \* source mapped on Output 2, Null = native
  \* macro globals
  ALLOWED_SOURCE_IDS,  \* sorted sequence of wired source ids
  googleCallActive,
  matrixEngaged,
  lastMatrixSourceId,
  debounceTimer,       \* last timeout handle, Null before the first one
  reevaluating,
  \* runtime
  pendingTimers,       \* timeout handles armed and not yet fired/cleared
  initPc,              \* position of init()
  hRefresh,            \* handlers awaiting refreshGoogleState
  runs,                \* reevaluate invocations past the single-flight check
  \* history
  io,                  \* what the last step logged: the Matrix command it completed
                       \* and its outcome, a failed query, or a skipped expiry
  lastRefresh,         \* outcome of the last completed refreshGoogleState
  trigGoogle,          \* googleCallActive as of the last scheduleReevaluate
  winIdle,             \* the engine was idle when the pending timer's window opened
  winBurst,            \* that window has coalesced more than one trigger
  quiet,               \* the environment has stopped raising events
  hist,                \* when on: the command outcome of each finished run
  pk                   \* one application of pickRelevantSourceId to drawn inputs

vars == << devCalls, devMode, devSources, devConnectors, devOutput2,
           ALLOWED_SOURCE_IDS, googleCallActive, matrixEngaged,
           lastMatrixSourceId, debounceTimer, reevaluating,
           pendingTimers, initPc, hRefresh, runs,
           io, lastRefresh, trigGoogle, winIdle, winBurst, quiet, hist, pk >>

devVars   == << devCalls, devMode, devSources, devConnectors >>
timerVars == << debounceTimer, pendingTimers, trigGoogle, winIdle, winBurst >>
auxVars   == << quiet, hist, pk >>
idleVars  == << quiet, pk >>
routeVars == << matrixEngaged, lastMatrixSourceId, devOutput2 >>

\* ------------------------------------------------------- pure helpers
Range(s) == { s[i] : i \in 1..Len(s) }

Min(S) == CHOOSE x \in S : \A y \in S : x <= y

\* [...set].sort((a,b)=>a-b)
RECURSIVE SortAsc(_)
SortAsc(S) == IF S = {} THEN <<>>
              ELSE <<Min(S)>> \o SortAsc(S \ {Min(S)})

\* String(s).trim().toLowerCase() on the tokens the model uses.
LowerTrim(tok) ==
  CASE tok = "Meet.Google.com/" -> "meet.google.com/"
    [] OTHER -> tok

IsScheme(tok) == tok \in {"https://", "http://"}

\* looksLikeGoogle: normalise, strip a leading scheme://, test the prefix.
looksLikeGoogle(cand) ==
  LET s == [i \in 1..Len(cand) |-> LowerTrim(cand[i])]
      t == IF Len(s) > 0 /\ IsScheme(s[1]) THEN Tail(s) ELSE s
  IN  Len(t) > 0 /\ t[1] = "meet.google.com/"

\* normalizeType: String(s).trim().toUpperCase() on the labels the model uses.
normalizeType(t) ==
  CASE t = "usbc-dp" -> "USBC-DP"
    [] t = " HDMI "  -> "HDMI"
    [] OTHER         -> t

\* t.includes(m) for some matcher of usbMatchers / hdmiMatchers
IsWiredType(t) == t \in {"USBC-DP", "USBC", "USB-C", "HDMI"}

\* The `found` set of refreshAllowedSourcesFromConnectors.
FoundConnectors(list) ==
  { c.id : c \in { d \in list : d.id # Null /\ IsWiredType(normalizeType(d.type)) } }

\* Faulty variant: no default when nothing is found or the query fails.
AllowedNoFallback(ok, prev) ==
  IF ok THEN SortAsc(FoundConnectors(devConnectors)) ELSE prev

\* Faulty variant: a failed query always installs the default.
AllowedDefaultOnFailure(ok, prev) ==
  IF ok /\ FoundConnectors(devConnectors) # {}
    THEN SortAsc(FoundConnectors(devConnectors))
    ELSE <<2, 3>>

\* ALLOWED_SOURCE_IDS after refreshAllowedSourcesFromConnectors completes.
AllowedAfterRefresh(ok, prev) ==
  IF ok
    THEN IF FoundConnectors(devConnectors) = {} THEN <<2, 3>>
         ELSE SortAsc(FoundConnectors(devConnectors))
    ELSE IF Len(prev) = 0 THEN <<2, 3>> ELSE prev

\* Faulty variant: a failed query keeps the previous classification.
ClassifyKeepsOnFailure(ok) ==
  IF ok THEN \E c \in devCalls : looksLikeGoogle(CallCandidate(c))
        ELSE googleCallActive

\* googleCallActive after refreshGoogleState completes.
ClassifyResult(ok) ==
  ok /\ \E c \in devCalls : looksLikeGoogle(CallCandidate(c))

\* isSharingToRemote's result.
RemoteResult(ok) == ok /\ devMode = "LocalRemote"

\* getLocalPresentationSourceIds's result.
ActiveIdsResult(ok) == IF ok THEN SortAsc(devSources) ELSE <<>>

\* JavaScript truthiness of a source id or null.
Truthy(v) == v # Null /\ v # 0

\* Faulty variant: the fallback indexes the allowed list, not the candidates.
pickLastAllowed(activeIds, allowed, last) ==
  LET candidates == SelectSeq(activeIds, LAMBDA id : id \in Range(allowed))
  IN  IF Len(candidates) = 0 THEN Null
      ELSE IF Truthy(last) /\ last \in Range(candidates) THEN last
      ELSE allowed[Len(allowed)]

\* Faulty variant: the active ids are not filtered by the allowed list.
pickIgnoresAllowed(activeIds, allowed, last) ==
  IF Len(activeIds) = 0 THEN Null
  ELSE IF Truthy(last) /\ last \in Range(activeIds) THEN last
  ELSE activeIds[Len(activeIds)]

\* Selection policy of reevaluate: the sticky source if still a candidate,
\* else the last of the ascending candidates.
pickRelevantSourceId(activeIds, allowed, last) ==
  LET candidates == SelectSeq(activeIds, LAMBDA id : id \in Range(allowed))
  IN  IF Len(candidates) = 0 THEN Null
      ELSE IF Truthy(last) /\ last \in Range(candidates) THEN last
      ELSE candidates[Len(candidates)]

\* Faulty variant: the diff check is missing, every selection is assigned.
NeedAssignAlways(chosen) == TRUE

\* The diff check of reevaluate before assignToOutput2.
NeedAssign(chosen) == ~matrixEngaged \/ lastMatrixSourceId # chosen

\* A step that completes no Matrix command.
NoIO == [op |-> "none", ok |-> TRUE]

\* A completed query: its catch block logs the failure.
QueryIO(kind, ok) == IF ok THEN NoIO ELSE [op |-> kind, ok |-> FALSE]

\* The "skip: reevaluate in flight" line of reevaluate.
SkipIO == [op |-> "skip", ok |-> TRUE]

\* ------------------------------------------------------------ run records
FreeRun == [pc |-> "free", google |-> FALSE, remote |-> FALSE, chosen |-> Null,
            trigGoogle |-> FALSE, winIdle |-> FALSE, burst |-> FALSE]

InBody == { r \in 1..NRun : runs[r].pc # "free" }

FreeSlot == Min((1..NRun) \ InBody)

\* Inputs drawn for one isolated application of pickRelevantSourceId.
PickIds == {0, 2, 3, 5}

PickIdle == [active |-> {}, allowed |-> {}, last |-> Null, out |-> Null, done |-> FALSE]

\* No run outcomes are being recorded.
HistOff == [on |-> FALSE, log |-> <<>>, cmds |-> <<>>]

\* ------------------------------------------------------------------ Init
InitMacro ==
  /\ ALLOWED_SOURCE_IDS = <<>>
  /\ googleCallActive = FALSE
  /\ matrixEngaged = FALSE
  /\ lastMatrixSourceId = Null
  /\ debounceTimer = Null
  /\ reevaluating = FALSE
  /\ pendingTimers = {}
  /\ initPc = "discover"
  /\ hRefresh = 0
  /\ runs = [r \in 1..NRun |-> FreeRun]
  /\ io = NoIO
  /\ lastRefresh = "none"
  /\ trigGoogle = FALSE
  /\ winIdle = FALSE
  /\ winBurst = FALSE
  /\ quiet = FALSE

Init ==
  /\ devCalls \in {{}, {"meet"}}
  /\ devMode = "None"
  /\ devSources = {}
  /\ devConnectors \in ConnectorChoices
  /\ devOutput2 \in {Null, 2}
  /\ InitMacro
  /\ hist = HistOff
  /\ pk = PickIdle

\* ------------------------------------------------------ Debounce Gate
\* Faulty variant: the pending timer is never cancelled.
ClearTimeoutNever(pending, handle) == pending

\* clearTimeout(debounceTimer) under `if (debounceTimer)`.
ClearTimeout(pending, handle) ==
  IF handle # Null THEN pending \ {handle} ELSE pending

\* scheduleReevaluate; g is googleCallActive as the calling handler leaves it.
scheduleReevaluate(g) ==
  LET cleared == ClearTimeout(pendingTimers, debounceTimer)
      free    == (1..MaxTimers) \ cleared
  IN  /\ free # {}
      /\ pendingTimers' = cleared \cup {Min(free)}
      /\ debounceTimer' = Min(free)
      /\ trigGoogle' = g
      /\ winIdle' = IF pendingTimers = {}
                      THEN ~reevaluating /\ InBody = {} /\ initPc = "done"
                      ELSE winIdle
      /\ winBurst' = IF pendingTimers = {} THEN FALSE ELSE winIdle

\* Faulty variant: the in-flight check is missing.
InFlightNever == FALSE

\* The single-flight check at the top of reevaluate.
InFlight == reevaluating

\* The timeout callback: reevaluate() up to its first await.
TimerFire(t) ==
  /\ t \in pendingTimers
  /\ pendingTimers' = pendingTimers \ {t}
  /\ IF InFlight
       THEN UNCHANGED << reevaluating, runs >>
       ELSE /\ (1..NRun) \ InBody # {}
            /\ reevaluating' = TRUE
            /\ runs' = [runs EXCEPT ![FreeSlot] =
                          [FreeRun EXCEPT !.pc = "remote",
                                          !.trigGoogle = trigGoogle,
                                          !.winIdle = winIdle,
                                          !.burst = winBurst]]
  /\ trigGoogle' = FALSE /\ winIdle' = FALSE /\ winBurst' = FALSE
  /\ io' = IF InFlight THEN SkipIO ELSE NoIO
  /\ UNCHANGED << devVars, routeVars, ALLOWED_SOURCE_IDS, googleCallActive,
                  debounceTimer, initPc, hRefresh, lastRefresh, auxVars >>

\* ------------------------------------------------- Reconciliation Engine
\* The `finally` of reevaluate.
FinishRun(r) ==
  /\ runs' = [runs EXCEPT ![r] = FreeRun]
  /\ reevaluating' = FALSE

\* Faulty variant: the no-op release returns without clearing the flag.
ReleaseFromKeepsFlag(r, rec) ==
  IF matrixEngaged
    THEN /\ runs' = [runs EXCEPT ![r] = [rec EXCEPT !.pc = "reset"]]
         /\ UNCHANGED reevaluating
    ELSE /\ runs' = [runs EXCEPT ![r] = FreeRun]
         /\ UNCHANGED reevaluating

\* `await resetOutput2()` entered by run r whose record is rec: returns at
\* once unless engaged, else the Reset command is in flight.
ReleaseFrom(r, rec) ==
  IF matrixEngaged
    THEN /\ runs' = [runs EXCEPT ![r] = [rec EXCEPT !.pc = "reset"]]
         /\ UNCHANGED reevaluating
    ELSE FinishRun(r)

\* History: when run r finishes in this step, log what its command did.
Record(r) ==
  hist' = IF hist.on /\ runs'[r].pc = "free"
            THEN [hist EXCEPT !.log = Append(@, IF io'.op \notin {"assign", "reset"}
                                                  THEN "none"
                                                ELSE IF io'.ok THEN "ok"
                                                ELSE "fail"),
                              !.cmds = Append(@, IF io'.op = "assign"
                                                   THEN << "assign", runs[r].chosen >>
                                                 ELSE IF io'.op = "reset"
                                                   THEN << "reset", Null >>
                                                 ELSE << "none", Null >>)]
            ELSE hist

\* Faulty variant: the sending mode is left out of the branch condition.
WantMirrorIgnoresSharing(remote) == googleCallActive

\* The branch condition of reevaluate.
WantMirror(remote) == googleCallActive /\ remote

\* isSharingToRemote completes; the run decides its path.
RunRemoteDone(r, ok) ==
  /\ runs[r].pc = "remote"
  /\ LET remote == RemoteResult(ok)
         rec    == [runs[r] EXCEPT !.google = googleCallActive, !.remote = remote,
                                   !.trigGoogle = FALSE, !.winIdle = FALSE,
                                   !.burst = FALSE]
     IN  IF WantMirror(remote)
           THEN /\ runs' = [runs EXCEPT ![r] = [rec EXCEPT !.pc =
                              IF Len(ALLOWED_SOURCE_IDS) = 0 THEN "discover"
                                                             ELSE "sources"]]
                /\ UNCHANGED reevaluating
           ELSE ReleaseFrom(r, rec)
  /\ io' = NoIO
  /\ UNCHANGED << devVars, routeVars, ALLOWED_SOURCE_IDS, googleCallActive,
                  timerVars, initPc, hRefresh, lastRefresh, idleVars >>
  /\ Record(r)

\* The lazy refreshAllowedSourcesFromConnectors of reevaluate completes.
RunDiscoverDone(r, ok) ==
  /\ runs[r].pc = "discover"
  /\ ALLOWED_SOURCE_IDS' = AllowedAfterRefresh(ok, ALLOWED_SOURCE_IDS)
  /\ runs' = [runs EXCEPT ![r].pc = "sources"]
  /\ io' = QueryIO("connectors", ok)
  /\ UNCHANGED << devVars, routeVars, googleCallActive, reevaluating,
                  timerVars, initPc, hRefresh, lastRefresh, auxVars >>

\* getLocalPresentationSourceIds completes; pick, then release / assign / no-op.
RunSourcesDone(r, ok) ==
  /\ runs[r].pc = "sources"
  /\ LET activeIds == ActiveIdsResult(ok)
         chosen    == pickRelevantSourceId(activeIds, ALLOWED_SOURCE_IDS,
                                           lastMatrixSourceId)
     IN  IF chosen = Null
           THEN ReleaseFrom(r, runs[r])
           ELSE IF NeedAssign(chosen)
             THEN /\ runs' = [runs EXCEPT ![r].pc = "assign", ![r].chosen = chosen]
                  /\ UNCHANGED reevaluating
             ELSE FinishRun(r)
  /\ io' = QueryIO("sources", ok)
  /\ UNCHANGED << devVars, routeVars, ALLOWED_SOURCE_IDS, googleCallActive,
                  timerVars, initPc, hRefresh, lastRefresh, idleVars >>
  /\ Record(r)

\* ------------------------------------------------------- Output Actuator
\* Faulty variant: the source id is recorded even when the command failed.
AssignOutcomeEager(ok, sourceId) ==
  IF ok THEN << TRUE, sourceId >> ELSE << matrixEngaged, sourceId >>

\* Faulty variant: the state is set before the command is known to succeed.
AssignOutcomeOptimistic(ok, sourceId) == << TRUE, sourceId >>

\* What a completed Matrix.Assign leaves in (matrixEngaged, lastMatrixSourceId).
AssignOutcome(ok, sourceId) ==
  IF ok THEN << TRUE, sourceId >> ELSE << matrixEngaged, lastMatrixSourceId >>

\* Faulty variant: the state is cleared whether or not the command succeeded,
\* and the last source id is kept.
ResetOutcomeKeepsSource(ok) == << FALSE, lastMatrixSourceId >>

\* What a completed Matrix.Reset leaves in (matrixEngaged, lastMatrixSourceId).
ResetOutcome(ok) ==
  IF ok THEN << FALSE, Null >> ELSE << matrixEngaged, lastMatrixSourceId >>

\* Matrix.Assign of run r completes (assignToOutput2 after its await).
RunAssignDone(r, ok) ==
  /\ runs[r].pc = "assign"
  /\ matrixEngaged' = AssignOutcome(ok, runs[r].chosen)[1]
  /\ lastMatrixSourceId' = AssignOutcome(ok, runs[r].chosen)[2]
  /\ devOutput2' = IF ok THEN runs[r].chosen ELSE devOutput2
  /\ io' = [op |-> "assign", ok |-> ok]
  /\ FinishRun(r)
  /\ UNCHANGED << devVars, ALLOWED_SOURCE_IDS, googleCallActive,
                  timerVars, initPc, hRefresh, lastRefresh, idleVars >>
  /\ Record(r)

\* Matrix.Reset of run r completes (resetOutput2 after its await).
RunResetDone(r, ok) ==
  /\ runs[r].pc = "reset"
  /\ matrixEngaged' = ResetOutcome(ok)[1]
  /\ lastMatrixSourceId' = ResetOutcome(ok)[2]
  /\ devOutput2' = IF ok THEN Null ELSE devOutput2
  /\ io' = [op |-> "reset", ok |-> ok]
  /\ FinishRun(r)
  /\ UNCHANGED << devVars, ALLOWED_SOURCE_IDS, googleCallActive,
                  timerVars, initPc, hRefresh, lastRefresh, idleVars >>
  /\ Record(r)

\* ------------------------------------------------------------------ init
\* init: refreshAllowedSourcesFromConnectors completes, refreshGoogleState starts.
InitDiscoverDone(ok) ==
  /\ initPc = "discover"
  /\ ALLOWED_SOURCE_IDS' = AllowedAfterRefresh(ok, ALLOWED_SOURCE_IDS)
  /\ initPc' = "classify"
  /\ io' = QueryIO("connectors", ok)
  /\ UNCHANGED << devVars, routeVars, googleCallActive, reevaluating,
                  timerVars, hRefresh, runs, lastRefresh, auxVars >>

\* init: refreshGoogleState completes, then resetOutput2 ("start clean").
InitClassifyDone(ok) ==
  /\ initPc = "classify"
  /\ googleCallActive' = ClassifyResult(ok)
  /\ lastRefresh' = IF ok THEN "ok" ELSE "fail"
  /\ initPc' = IF matrixEngaged THEN "reset" ELSE "done"
  /\ io' = NoIO
  /\ UNCHANGED << devVars, routeVars, ALLOWED_SOURCE_IDS, reevaluating,
                  timerVars, hRefresh, runs, auxVars >>

\* init: the Matrix.Reset of its resetOutput2 completes.
InitResetDone(ok) ==
  /\ initPc = "reset"
  /\ matrixEngaged' = ResetOutcome(ok)[1]
  /\ lastMatrixSourceId' = ResetOutcome(ok)[2]
  /\ devOutput2' = IF ok THEN Null ELSE devOutput2
  /\ io' = [op |-> "reset", ok |-> ok]
  /\ initPc' = "done"
  /\ UNCHANGED << devVars, ALLOWED_SOURCE_IDS, googleCallActive, reevaluating,
                  timerVars, hRefresh, runs, lastRefresh, auxVars >>

\* --------------------------------------------------------- event wiring
\* Event.CallSuccessful: a call connects; the handler awaits refreshGoogleState.
CallSuccessful(c) ==
  /\ ~quiet /\ c \notin devCalls /\ hRefresh < MaxHandlers
  /\ devCalls' = devCalls \cup {c}
  /\ hRefresh' = hRefresh + 1
  /\ io' = NoIO
  /\ UNCHANGED << devMode, devSources, devConnectors, routeVars,
                  ALLOWED_SOURCE_IDS, googleCallActive, reevaluating,
                  timerVars, initPc, runs, lastRefresh, auxVars >>

\* Event.PresentationStarted: the handler awaits refreshGoogleState.
PresentationStarted(m, s) ==
  /\ ~quiet /\ devMode = "None" /\ hRefresh < MaxHandlers
  /\ devMode' = m
  /\ devSources' = s
  /\ hRefresh' = hRefresh + 1
  /\ io' = NoIO
  /\ UNCHANGED << devCalls, devConnectors, routeVars,
                  ALLOWED_SOURCE_IDS, googleCallActive, reevaluating,
                  timerVars, initPc, runs, lastRefresh, auxVars >>

\* The refreshGoogleState of a CallSuccessful / PresentationStarted handler
\* completes and the handler calls scheduleReevaluate.
HandlerRefreshDone(ok) ==
  /\ hRefresh > 0
  /\ hRefresh' = hRefresh - 1
  /\ googleCallActive' = ClassifyResult(ok)
  /\ lastRefresh' = IF ok THEN "ok" ELSE "fail"
  /\ scheduleReevaluate(ClassifyResult(ok))
  /\ io' = NoIO
  /\ UNCHANGED << devVars, routeVars, ALLOWED_SOURCE_IDS, reevaluating,
                  initPc, runs, auxVars >>

\* Event.PresentationStopped.
PresentationStopped ==
  /\ ~quiet /\ devMode # "None"
  /\ devMode' = "None"
  /\ devSources' = {}
  /\ scheduleReevaluate(googleCallActive)
  /\ io' = NoIO
  /\ UNCHANGED << devCalls, devConnectors, routeVars, ALLOWED_SOURCE_IDS,
                  googleCallActive, reevaluating, initPc, hRefresh, runs,
                  lastRefresh, auxVars >>

\* Status.Conference.Presentation.Mode change: the share switches between
\* local preview and sending to the far end.
ModeChanged(m) ==
  /\ ~quiet /\ devMode # "None" /\ m # devMode
  /\ devMode' = m
  /\ scheduleReevaluate(googleCallActive)
  /\ io' = NoIO
  /\ UNCHANGED << devCalls, devSources, devConnectors, routeVars,
                  ALLOWED_SOURCE_IDS, googleCallActive, reevaluating, initPc,
                  hRefresh, runs, lastRefresh, auxVars >>

\* Status.Conference.Presentation.Mode notified with the sending mode of
\* the local instance as it was: the handler only schedules.
ModeNotified ==
  /\ ~quiet
  /\ scheduleReevaluate(googleCallActive)
  /\ io' = NoIO
  /\ UNCHANGED << devVars, routeVars, ALLOWED_SOURCE_IDS, googleCallActive,
                  reevaluating, initPc, hRefresh, runs, lastRefresh, auxVars >>

\* What the CallDisconnect handler writes to googleCallActive.
DisconnectClassification == FALSE

\* Event.CallDisconnect.
CallDisconnect(c) ==
  /\ ~quiet /\ c \in devCalls
  /\ devCalls' = devCalls \ {c}
  /\ googleCallActive' = DisconnectClassification
  /\ scheduleReevaluate(DisconnectClassification)
  /\ io' = NoIO
  /\ UNCHANGED << devMode, devSources, devConnectors, routeVars,
                  ALLOWED_SOURCE_IDS, reevaluating, initPc, hRefresh, runs,
                  lastRefresh, auxVars >>

\* ------------------------------------------------------------ behaviours
Events ==
  \/ \E c \in Calls : CallSuccessful(c)
  \/ \E c \in Calls : CallDisconnect(c)
  \/ \E m \in SendingModes, s \in ActiveChoices : PresentationStarted(m, s)
  \/ PresentationStopped
  \/ \E m \in SendingModes : ModeChanged(m)
  \/ ModeNotified

Engine(ok) ==
  \/ InitDiscoverDone(ok)
  \/ InitClassifyDone(ok)
  \/ InitResetDone(ok)
  \/ HandlerRefreshDone(ok)
  \/ \E r \in 1..NRun : RunRemoteDone(r, ok)
  \/ \E r \in 1..NRun : RunDiscoverDone(r, ok)
  \/ \E r \in 1..NRun : RunSourcesDone(r, ok)
  \/ \E r \in 1..NRun : RunAssignDone(r, ok)
  \/ \E r \in 1..NRun : RunResetDone(r, ok)

Fire == \E t \in 1..MaxTimers : TimerFire(t)

Next == Events \/ Fire \/ (\E ok \in BOOLEAN : Engine(ok))

Spec == Init /\ [][Next]_vars

\* ---------------------------------------------- the quiescent environment
\* From here on the device raises no further event.
Quiesce ==
  /\ ~quiet
  /\ quiet' = TRUE
  /\ io' = NoIO
  /\ UNCHANGED << devVars, routeVars, ALLOWED_SOURCE_IDS, googleCallActive,
                  reevaluating, timerVars, initPc, hRefresh, runs,
                  lastRefresh, hist, pk >>

InitLive ==
  /\ devCalls = {"meet"}
  /\ devMode = "None"
  /\ devSources = {}
  /\ devConnectors \in ConnectorChoices
  /\ devOutput2 = Null
  /\ InitMacro
  /\ hist = HistOff
  /\ pk = PickIdle

\* Every query and command succeeds; events may stop.
NextLive == Events \/ Quiesce \/ Fire \/ Engine(TRUE)

\* Armed timers fire and pending queries and commands complete.
LiveSpec ==
  /\ InitLive
  /\ [][NextLive]_vars
  /\ WF_vars(Fire)
  /\ WF_vars(Engine(TRUE))

\* --------------------------------------- the Selection Policy in isolation
InitPick ==
  /\ devCalls = {}
  /\ devMode = "None"
  /\ devSources = {}
  /\ devConnectors \in ConnectorChoices
  /\ devOutput2 = Null
  /\ InitMacro
  /\ hist = HistOff
  /\ pk \in [active : SUBSET PickIds, allowed : SUBSET PickIds,
             last : PickIds \cup {Null}, out : {Null}, done : {FALSE}]

\* pickRelevantSourceId applied to the drawn inputs, the arrays sorted as
\* getLocalPresentationSourceIds and the discovery pass leave them.
PickStep ==
  /\ ~pk.done
  /\ pk' = [pk EXCEPT !.out = pickRelevantSourceId(SortAsc(pk.active),
                                                   SortAsc(pk.allowed), pk.last),
                      !.done = TRUE]
  /\ io' = NoIO
  /\ UNCHANGED << devVars, routeVars, ALLOWED_SOURCE_IDS, googleCallActive,
                  reevaluating, timerVars, initPc, hRefresh, runs,
                  lastRefresh, quiet, hist >>

SpecPick == InitPick /\ [][PickStep]_vars

\* ------------------------------------- reconciliation on frozen inputs
\* init has completed, the inputs and the starting RoutingState are drawn
\* and then held fixed, and a timer is armed.
InitIdem ==
  /\ devCalls = {"meet"}
  /\ \/ devMode = "None" /\ devSources = {}
     \/ devMode \in SendingModes /\ devSources \in ActiveChoices
  /\ devConnectors \in ConnectorChoices
  /\ ALLOWED_SOURCE_IDS = SortAsc(IF FoundConnectors(devConnectors) = {}
                                    THEN {2, 3} ELSE FoundConnectors(devConnectors))
  /\ googleCallActive \in BOOLEAN
  /\ \/ matrixEngaged = FALSE /\ lastMatrixSourceId = Null
     \/ matrixEngaged = TRUE /\ lastMatrixSourceId \in Range(ALLOWED_SOURCE_IDS)
  /\ devOutput2 = lastMatrixSourceId
  /\ debounceTimer = 1
  /\ pendingTimers = {1}
  /\ reevaluating = FALSE
  /\ initPc = "done"
  /\ hRefresh = 0
  /\ runs = [r \in 1..NRun |-> FreeRun]
  /\ io = NoIO
  /\ lastRefresh = "ok"
  /\ trigGoogle = googleCallActive
  /\ winIdle = TRUE
  /\ winBurst = FALSE
  /\ quiet = FALSE
  /\ hist = [on |-> TRUE, log |-> <<>>, cmds |-> <<>>]
  /\ pk = PickIdle

\* A second trigger once the first run has finished, the inputs unchanged.
IdemTrigger ==
  /\ Len(hist.log) = 1 /\ pendingTimers = {} /\ ~reevaluating
  /\ ModeNotified

\* Queries answer from the frozen inputs; commands may fail.
NextIdem ==
  \/ IdemTrigger
  \/ Fire
  \/ \E r \in 1..NRun : RunRemoteDone(r, TRUE)
  \/ \E r \in 1..NRun : RunSourcesDone(r, TRUE)
  \/ \E r \in 1..NRun, ok \in BOOLEAN : RunAssignDone(r, ok)
  \/ \E r \in 1..NRun, ok \in BOOLEAN : RunResetDone(r, ok)

SpecIdem == InitIdem /\ [][NextIdem]_vars

\* ================================================================ claims
RoutingState == << matrixEngaged, lastMatrixSourceId >>

MeetingPresent == \E c \in devCalls : looksLikeGoogle(CallCandidate(c))

\* C1: at most one invocation of reevaluate is past the single-flight check
\* and not yet finished, in every reachable state.
C1_SingleFlight ==
  /\ Cardinality(InBody) <= 1
  /\ (InBody # {}) => reevaluating

\* C1 witness: a run is in its body while another timer and a handler's
\* refresh are pending.
C1_Witness == InBody # {} /\ pendingTimers # {} /\ hRefresh > 0

\* C3: engaged == false implies the current source id is null, in every
\* state, including after failed commands and while commands are in flight.
C3_EngagedInvariant == ~matrixEngaged => lastMatrixSourceId = Null

\* C3 witness: an assign has just failed while not engaged.
C3_Witness == io = [op |-> "assign", ok |-> FALSE] /\ ~matrixEngaged

\* A release returned in this step: its Reset command completed, ...
ResetReturned ==
  \/ initPc = "reset" /\ initPc' = "done"
  \/ \E r \in 1..NRun : runs[r].pc = "reset" /\ runs'[r].pc = "free"

\* ... or it found the output not engaged and returned at once.
ReleaseNoOp ==
  \/ initPc = "classify" /\ initPc' = "done"
  \/ \E r \in 1..NRun : runs[r].pc = "remote" /\ runs'[r].pc = "free"

\* C5 as stated: after any release returns, RoutingState == {false, null}.
C5_ReleaseAlways ==
  [][(ResetReturned \/ ReleaseNoOp) => RoutingState' = << FALSE, Null >>]_vars

\* C5 amended: after a release returns whose Reset command succeeded, or
\* that found the output not engaged, RoutingState == {false, null}; a
\* failed Reset leaves RoutingState as it was.
C5_ReleaseOnSuccess ==
  [][ /\ (ResetReturned /\ io'.ok) => RoutingState' = << FALSE, Null >>
      /\ (ResetReturned /\ ~io'.ok) => RoutingState' = RoutingState
      /\ ReleaseNoOp => RoutingState' = << FALSE, Null >> ]_vars

\* C5 witness: a Reset has just succeeded on an output that an earlier
\* assign had pinned (release, assign(s), release).
C5_Witness ==
  io = [op |-> "reset", ok |-> TRUE] /\ RoutingState = << FALSE, Null >>
    /\ devOutput2 = Null /\ initPc = "done"

\* C6: once init has completed, the secondary output is native and
\* RoutingState == {false, null}, whatever the output held at process start.
C6_InitStartsClean ==
  [][(initPc # "done" /\ initPc' = "done")
        => (devOutput2' = Null /\ RoutingState' = << FALSE, Null >>)]_vars

\* The Selection Policy's reference definition.
RefPick(active, allowed, last) ==
  LET both == active \cap allowed
  IN  IF both = {} THEN Null
      ELSE IF last \in both THEN last
      ELSE CHOOSE x \in both : \A y \in both : y <= x

\* C8: pick returns none iff the intersection is empty, else lastChosen if
\* it is in the intersection, else the largest id of the intersection.
C8_PickMatchesReference ==
  pk.done => pk.out = RefPick(pk.active, pk.allowed, pk.last)

\* A classification refresh completed in this step.
RefreshCompleted ==
  hRefresh' < hRefresh \/ (initPc = "classify" /\ initPc' # "classify")

\* C9: a failed call-list query sets the classification false and the
\* handler carries on (it arms the timer); a run deciding while the
\* classification is false takes the release path and issues no assign.
C9_FailClosed ==
  [][ /\ (RefreshCompleted /\ lastRefresh' = "fail") => ~googleCallActive'
      /\ (hRefresh' < hRefresh) => pendingTimers' # {}
      /\ \A r \in 1..NRun :
           (runs[r].pc = "remote" /\ runs'[r].pc # "remote" /\ ~googleCallActive)
             => runs'[r].pc \in {"free", "reset"}
      /\ \A r \in 1..NRun : runs'[r].pc = "assign" => runs'[r].google ]_vars

\* C9 witness: the last refresh failed with a meeting call present, and a
\* run that read remote sharing took the release path on the false flag.
C9_Witness ==
  /\ lastRefresh = "fail" /\ MeetingPresent /\ ~googleCallActive
  /\ \E r \in 1..NRun : runs[r].pc = "reset" /\ ~runs[r].google /\ runs[r].remote

\* C10: whenever no classification refresh is in flight (and the last one
\* did not fail), the classification is true iff a current call matches.
C10_TracksSnapshot ==
  (hRefresh = 0 /\ initPc \in {"reset", "done"} /\ lastRefresh = "ok")
    => (googleCallActive <=> MeetingPresent)

\* A pending timer expired in this step.
TimerExpired == Cardinality(pendingTimers') < Cardinality(pendingTimers)

\* Run r made its decision in this step.
Decided(r) == runs[r].pc = "remote" /\ runs'[r].pc # "remote"

\* C2 as stated: triggers coalesced in one window that opened with the
\* engine idle produce one run, and that run decides on the
\* MeetingClassification as of the window's last trigger.
C2_DecidesAsOfLastTrigger ==
  [][\A r \in 1..NRun :
       (Decided(r) /\ runs[r].winIdle) => googleCallActive = runs[r].trigGoogle]_vars

\* C2 amended: any number of scheduleReevaluate calls leave at most one
\* pending timer; its expiry with no run in flight starts exactly one run;
\* and that run decides on the MeetingClassification and the sending mode
\* as they are when its sending-mode query returns (which a trigger later
\* than the window's last one may have changed).
C2_Coalesce ==
  [][ /\ Cardinality(pendingTimers') <= 1
      /\ (TimerExpired /\ ~reevaluating)
           => (reevaluating' /\ Cardinality(InBody') = Cardinality(InBody) + 1)
      /\ (~TimerExpired) => Cardinality(InBody') <= Cardinality(InBody)
      /\ \A r \in 1..NRun : Decided(r) =>
           /\ runs'[r].pc \in {"discover", "sources"}
                <=> (googleCallActive /\ runs'[r].remote)
           /\ runs'[r].remote => devMode = "LocalRemote" ]_vars

\* C2 witness: a run started from a window that opened with the engine idle
\* and coalesced at least two triggers, and the classification has changed
\* since the window's last trigger.
C2_Witness ==
  \E r \in 1..NRun :
    /\ runs[r].pc = "remote" /\ runs[r].winIdle /\ runs[r].burst
    /\ runs[r].trigGoogle # googleCallActive

\* The device state calls for a released output.
ShouldRelease == devMode # "LocalRemote" \/ ~MeetingPresent

Released == RoutingState = << FALSE, Null >> /\ devOutput2 = Null

\* C7: once events have stopped with sharing stopped or the meeting ended,
\* an engaged output (or one whose assign is in progress) is eventually
\* released for good, given that timers fire and every query and command
\* completes successfully.
C7_EventualRelease ==
  [](( /\ quiet /\ ShouldRelease
       /\ (matrixEngaged \/ \E r \in 1..NRun : runs[r].pc = "assign") )
      => <>[]Released)

\* C4 as stated: two reconciliation runs in succession on unchanged inputs
\* issue at most one command in total, and the second issues none.
C4_Idempotent ==
  Len(hist.log) = 2 => hist.log[2] = "none"

\* C4 amended: two reconciliation runs in succession on unchanged inputs
\* issue at most one command in total and the second issues none, provided
\* the first run's command, if it issued one, succeeded.
C4_IdempotentOnSuccess ==
  (Len(hist.log) = 2 /\ hist.log[1] # "fail") => hist.log[2] = "none"

\* C4 witness: the first run's assign succeeded and the second run, on the
\* same inputs, finished without a command.
C4_Witness ==
  hist.log = << "ok", "none" >> /\ matrixEngaged /\ devMode = "LocalRemote"

\* ------------------------------------------------ steps of a single run
\* Run r leaves program point pc in this step.
Leaves(r, pc) == runs[r].pc = pc /\ runs'[r].pc # pc

\* The Matrix command op awaited by run r returns in this step.
CmdReturned(r, op) ==
  runs[r].pc = op /\ runs'[r].pc = "free" /\ io'.op = op

\* Run r issues the Matrix command op in this step.
Issues(r, op) == runs[r].pc # op /\ runs'[r].pc = op

\* C11, the two runs: a run that found the meeting classified and sharing
\* LocalRemote, with the output not engaged, allowed sources {2,3} and active
\* sources {2,7} read, issues assign(2) and nothing else; when the assign
\* succeeds the routing state is {true, 2}. A run that reads LocalOnly while
\* engaged issues a reset and nothing else; when it succeeds the routing
\* state is {false, null}.
C11_RunSteps ==
  [][\A r \in 1..NRun :
       /\ ( /\ Leaves(r, "sources") /\ io'.ok
            /\ ~matrixEngaged
            /\ ALLOWED_SOURCE_IDS = <<2, 3>> /\ devSources = {2, 7} )
          => runs'[r].pc = "assign" /\ runs'[r].chosen = 2
       /\ (CmdReturned(r, "assign") /\ io'.ok /\ runs[r].chosen = 2)
          => RoutingState' = << TRUE, 2 >> /\ devOutput2' = 2
       /\ (Leaves(r, "remote") /\ devMode = "LocalOnly" /\ matrixEngaged)
          => runs'[r].pc = "reset"
       /\ (CmdReturned(r, "reset") /\ io'.ok)
          => RoutingState' = << FALSE, Null >> /\ devOutput2' = Null
       /\ runs[r].pc \in {"assign", "reset"}
          => runs'[r].pc \in {runs[r].pc, "free"}
    ]_vars

\* C11, the later event: with the output engaged and no run in flight, an
\* event that leaves the sending mode LocalOnly and a timer pending, followed
\* by no further event, leads to the output being released, given that timers
\* fire and every query and command completes successfully.
C11_ReleaseFollows ==
  ( /\ quiet /\ InBody = {} /\ pendingTimers # {}
    /\ matrixEngaged /\ devMode = "LocalOnly" )
    ~> Released

\* C11: end-to-end assign-then-release: the two runs behave as described and
\* the later LocalOnly event leads to the releasing run.
C11_AssignThenRelease == C11_RunSteps /\ C11_ReleaseFollows

\* C11 witness: with allowed sources {2,3} and the presentation on {2,7}
\* switched to LocalOnly, events have stopped and a run's reset has just
\* succeeded and released the output that an earlier run engaged.
C11_Witness ==
  /\ quiet
  /\ io = [op |-> "reset", ok |-> TRUE]
  /\ devMode = "LocalOnly" /\ devSources = {2, 7}
  /\ ALLOWED_SOURCE_IDS = <<2, 3>> /\ googleCallActive
  /\ RoutingState = << FALSE, Null >> /\ initPc = "done"

\* C12: a run that found the meeting classified and sharing LocalRemote but
\* reads active sources none of which is allowed takes the release path: it
\* issues no assign and leaves the routing state alone, issuing a reset
\* exactly when the output is engaged; that reset, when it succeeds, leaves
\* the routing state {false, null}.
C12_NoOverlapReleases ==
  [][\A r \in 1..NRun :
       /\ ( /\ Leaves(r, "sources")
            /\ Range(ActiveIdsResult(io'.ok)) \cap Range(ALLOWED_SOURCE_IDS) = {} )
          => /\ runs'[r].pc = IF matrixEngaged THEN "reset" ELSE "free"
             /\ RoutingState' = RoutingState
       /\ (CmdReturned(r, "reset") /\ io'.ok /\ runs[r].remote)
          => Released'
    ]_vars

\* C12 witness: engaged, meeting classified, sharing LocalRemote with only
\* source 9 active: the run is on the release path with its reset in flight.
C12_Witness ==
  \E r \in 1..NRun :
    /\ runs[r].pc = "reset" /\ runs[r].google /\ runs[r].remote
    /\ devSources = {9} /\ devMode = "LocalRemote" /\ googleCallActive
    /\ matrixEngaged

\* C13: a failed assign or reset leaves the routing state (and Output 2)
\* exactly as before and the run still finishes normally, clearing the
\* in-flight flag; the next run on the same inputs issues the same command
\* again.
C13_FailurePreservesAndRetries ==
  [][ /\ (io'.op \in {"assign", "reset"} /\ ~io'.ok)
         => /\ RoutingState' = RoutingState /\ devOutput2' = devOutput2
            /\ ~reevaluating' /\ InBody' = {}
      /\ (Len(hist'.log) = 2 /\ hist'.log[1] = "fail")
         => /\ hist'.cmds[2] = hist'.cmds[1]
            /\ hist'.cmds[2][1] \in {"assign", "reset"}
    ]_vars

\* C13 witness: the first run's assign failed and the second run, on the
\* same inputs, issued the same assign, which succeeded.
C13_Witness ==
  /\ hist.log = << "fail", "ok" >>
  /\ hist.cmds[1] = hist.cmds[2] /\ hist.cmds[1][1] = "assign"
  /\ RoutingState = << TRUE, hist.cmds[2][2] >>

\* C14: a timer that expires while a run is in flight is dropped: the
\* expiry logs the skip, starts no run, arms no timer and changes neither
\* the routing state, the meeting classification nor the in-flight flag;
\* and the step in which a run finishes leaves the engine idle, with the flag
\* clear and no timer armed by it.
C14_DroppedNotQueued ==
  [][ /\ (TimerExpired /\ reevaluating)
         => /\ io' = SkipIO
            /\ runs' = runs /\ reevaluating' = reevaluating
            /\ RoutingState' = RoutingState /\ devOutput2' = devOutput2
            /\ googleCallActive' = googleCallActive
            /\ ALLOWED_SOURCE_IDS' = ALLOWED_SOURCE_IDS
            /\ pendingTimers' \subseteq pendingTimers
            /\ debounceTimer' = debounceTimer
      /\ \A r \in 1..NRun :
           (runs[r].pc # "free" /\ runs'[r].pc = "free")
             => /\ ~reevaluating' /\ InBody' = {}
                /\ pendingTimers' = pendingTimers
                /\ debounceTimer' = debounceTimer
    ]_vars

\* C14 witness: a timer has just expired during a run and was skipped; the
\* run is still in flight and no timer is pending.
C14_Witness ==
  io = SkipIO /\ reevaluating /\ InBody # {} /\ pendingTimers = {}

\* Matrix commands sent to the device and not yet answered: those of the
\* runs and the reset of init.
Outstanding ==
  Cardinality({ r \in 1..NRun : runs[r].pc \in {"assign", "reset"} })
    + (IF initPc = "reset" THEN 1 ELSE 0)

\* C15: at most one Matrix command is outstanding at any time; an assign of
\* source s is never issued while the routing state is {true, s}; a reset is
\* never issued while the output is not engaged.
C15_NoRedundantOrOverlapping ==
  [][ /\ Outstanding' <= 1
      /\ \A r \in 1..NRun :
           /\ Issues(r, "assign")
              => ~(matrixEngaged /\ lastMatrixSourceId = runs'[r].chosen)
           /\ Issues(r, "reset") => matrixEngaged
      /\ (initPc # "reset" /\ initPc' = "reset") => matrixEngaged
    ]_vars

\* C16: at the moment a run issues an assign the meeting classification is
\* true and the sending mode that run read was LocalRemote; and between a
\* run's branch check and its Matrix command no step changes the meeting
\* classification.
C16_AssignNeverStale ==
  [][\A r \in 1..NRun :
       /\ Issues(r, "assign")
          => googleCallActive /\ runs[r].google /\ runs[r].remote
       /\ runs[r].pc \in {"discover", "sources"}
          => googleCallActive' = googleCallActive
    ]_vars

\* refreshAllowedSourcesFromConnectors, called by init or by a run, completes
\* in this step.
DiscoveryCompleted ==
  \/ initPc = "discover" /\ initPc' # "discover"
  \/ \E r \in 1..NRun : Leaves(r, "discover")

\* C17: the allowed list is non-empty after every completion of the discovery
\* (connectors found, none found, or the query failed), and non-empty when a
\* run applies the selection policy, also when the run was triggered before
\* init's discovery completed.
C17_AllowedNonEmptyWhenUsed ==
  [][ /\ DiscoveryCompleted => Len(ALLOWED_SOURCE_IDS') > 0
      /\ \A r \in 1..NRun :
           Leaves(r, "sources") => Len(ALLOWED_SOURCE_IDS) > 0
    ]_vars

\* C17 witness: a run triggered before init's discovery completed has just
\* had its own discovery fail and is about to select from the default list.
C17_Witness ==
  /\ initPc = "discover" /\ io = QueryIO("connectors", FALSE)
  /\ \E r \in 1..NRun : runs[r].pc = "sources"
  /\ ALLOWED_SOURCE_IDS = <<2, 3>>

\* C18 as stated: whenever the discovery finds no eligible connector, or its
\* connector query fails, the allowed list afterwards is the default [2,3],
\* whatever it held before.
C18_FallbackWhateverBefore ==
  [][ (DiscoveryCompleted /\ (~io'.ok \/ FoundConnectors(devConnectors) = {}))
        => ALLOWED_SOURCE_IDS' = <<2, 3>>
    ]_vars

\* C18 amended: when the discovery finds no eligible connector, or its query
\* fails while the allowed list is empty, the list afterwards is the default
\* [2,3]; when the query fails while the list is non-empty, the list is kept
\* as it was.
C18_FallbackOrKeep ==
  [][ DiscoveryCompleted
        => /\ (io'.ok /\ FoundConnectors(devConnectors) = {})
              => ALLOWED_SOURCE_IDS' = <<2, 3>>
           /\ (~io'.ok /\ Len(ALLOWED_SOURCE_IDS) = 0)
              => ALLOWED_SOURCE_IDS' = <<2, 3>>
           /\ (~io'.ok /\ Len(ALLOWED_SOURCE_IDS) > 0)
              => ALLOWED_SOURCE_IDS' = ALLOWED_SOURCE_IDS
    ]_vars

\* C18 witness: init's connector query has just failed after a run's own
\* discovery had installed [2,3,4]; the list was kept.
C18_Witness ==
  /\ initPc = "classify" /\ io = QueryIO("connectors", FALSE)
  /\ ALLOWED_SOURCE_IDS = <<2, 3, 4>>

\* C19: while the output is engaged the current source id is a non-null
\* integer, set by a successful assign of a run that had selected it from
\* the active source ids it read and the allowed list as it then was: a run
\* issues an assign only for such an id, a successful assign records exactly
\* the id it asked for, and nothing else sets the id of an engaged output.
C19_EngagedSourceWasEligible ==
  [][ /\ \A r \in 1..NRun :
           /\ Issues(r, "assign")
              => /\ io'.ok
                 /\ runs'[r].chosen \in Nat
                 /\ runs'[r].chosen \in devSources \cap Range(ALLOWED_SOURCE_IDS)
           /\ runs[r].pc = "assign" /\ runs'[r].pc = "assign"
              => runs'[r].chosen = runs[r].chosen
           /\ (CmdReturned(r, "assign") /\ io'.ok)
              => RoutingState' = << TRUE, runs[r].chosen >>
      /\ ( /\ matrixEngaged'
           /\ (~matrixEngaged \/ lastMatrixSourceId' # lastMatrixSourceId) )
         => \E r \in 1..NRun : /\ CmdReturned(r, "assign") /\ io'.ok
                                /\ runs[r].chosen = lastMatrixSourceId'
      /\ matrixEngaged' => lastMatrixSourceId' \in Nat
    ]_vars

\* C19 witness: an assign has just succeeded and the output is engaged on
\* source 3, which is active and allowed.
C19_Witness ==
  /\ io = [op |-> "assign", ok |-> TRUE]
  /\ RoutingState = << TRUE, 3 >>
  /\ devSources = {2, 3} /\ 3 \in Range(ALLOWED_SOURCE_IDS)

\* C20: the in-flight flag is true exactly while a run is inside its body:
\* every way out of a run (no-op, command succeeded, query or command
\* failed) clears it, and a timer expiring while no run is in progress
\* starts one.
C20_FlagExactlyWhileRunning ==
  [][ /\ reevaluating <=> (InBody # {})
      /\ reevaluating' <=> (InBody' # {})
      /\ \A r \in 1..NRun :
           (runs[r].pc # "free" /\ runs'[r].pc = "free") => ~reevaluating'
      /\ (TimerExpired /\ InBody = {})
         => Cardinality(InBody') = 1 /\ reevaluating'
    ]_vars

\* C20 witness: a run has just ended on a failed reset; the flag is clear,
\* no run is in progress and a timer is pending.
C20_Witness ==
  /\ io = [op |-> "reset", ok |-> FALSE]
  /\ ~reevaluating /\ InBody = {} /\ pendingTimers # {}

====
